---- MODULE Spec2Model ----
(***************************************************************************)
(* Font registration and font object emission of gofpdf.                   *)
(*                                                                         *)
(* The repository carries the font code twice: src/font.go (AddFont reads  *)
(* TrueType files directly) and src/unnamed/part_001 (AddFont reads JSON   *)
(* definition files, AddTTFFont reads TrueType files, MakeFont writes the  *)
(* definition files).  The variable `build` says which of the two a        *)
(* session runs.                                                           *)
(*                                                                         *)
(* Strings the code takes apart (family, style, file names, keys) are      *)
(* sequences of one-character strings; other strings are TLA+ strings.     *)
(* File contents are sequences of bytes (0..255).                          *)
(***************************************************************************)
EXTENDS Integers, Sequences, FiniteSets, TLC

VARIABLES
    build,        \* "font.go" or "part_001": which source file the session runs
    made,         \* files of the font directory besides BaseDir: file name -> content
    fonts,        \* f.fonts: font key -> fontType
    diffs,        \* f.diffs: sequence of differences strings
    err,          \* f.err ("nil" when unset)
    n,            \* f.n: number of the last object allocated
    out,          \* objects written to the document buffer
    pageOut,      \* operators written to the current page
    page,         \* f.page
    catalogSort,  \* f.catalogSort
    sel,          \* current selection: fontFamily, fontStyle, fontSizePt, fontSize, underline, currentFont
    crashed,      \* "no", or the fatal runtime error that ended the process
    depth,        \* nesting depth of the font.go AddFont call in progress (0: none)
    pending,      \* arguments of the font.go AddFont call in progress
    calls,        \* number of session calls made
    makes,        \* number of MakeFont runs made
    last,         \* the last call: whether it registers, whether its name was registered before, whether its extraction failed and with which error
    run,          \* the last putfonts run: at its entry, f.n, f.err and the lengths of the output, f.diffs and f.fonts
    pure          \* the package function applied outside a session: its name, arguments and result

vars == <<build, made, fonts, diffs, err, n, out, pageOut, page, catalogSort,
          sel, crashed, depth, pending, calls, makes, last, run, pure>>

----------------------------------------------------------------------------
(* Bounds *)

MaxCalls == 3        \* session calls per behaviour
MaxMakes == 1        \* MakeFont runs per behaviour
MaxDepth == 3        \* nested AddFont frames before the stack is exhausted
MaxLines == 3        \* lines of an encoding map file given to loadMap

----------------------------------------------------------------------------
(* Strings *)

ToLowerCh(c) ==
    CASE c = "A" -> "a" [] c = "B" -> "b" [] c = "I" -> "i" [] c = "U" -> "u"
      [] c = "T" -> "t" [] c = "F" -> "f" [] c = "O" -> "o" [] c = "P" -> "p"
      [] OTHER -> c

ToUpperCh(c) ==
    CASE c = "a" -> "A" [] c = "b" -> "B" [] c = "i" -> "I" [] c = "u" -> "U"
      [] c = "t" -> "T" [] c = "f" -> "F" [] c = "o" -> "O" [] c = "p" -> "P"
      [] OTHER -> c

ToLower(s) == [i \in 1..Len(s) |-> ToLowerCh(s[i])]
ToUpper(s) == [i \in 1..Len(s) |-> ToUpperCh(s[i])]

\* strings.Replace(s, c, "", -1)
RECURSIVE RemoveCh(_, _)
RemoveCh(s, c) ==
    IF s = <<>> THEN <<>>
    ELSE IF Head(s) = c THEN RemoveCh(Tail(s), c)
    ELSE <<Head(s)>> \o RemoveCh(Tail(s), c)

\* strings.Contains(s, c) for a one-character c
ContainsCh(s, c) == \E i \in 1..Len(s) : s[i] = c

\* byte value of a character, for sort.Strings
Ord(c) ==
    CASE c = "." -> 46
      [] c = "A" -> 65 [] c = "B" -> 66 [] c = "I" -> 73 [] c = "U" -> 85
      [] c = "a" -> 97 [] c = "b" -> 98 [] c = "c" -> 99 [] c = "f" -> 102
      [] c = "h" -> 104 [] c = "i" -> 105 [] c = "j" -> 106 [] c = "n" -> 110
      [] c = "o" -> 111 [] c = "p" -> 112 [] c = "r" -> 114 [] c = "s" -> 115
      [] c = "t" -> 116 [] c = "u" -> 117 [] c = "x" -> 120 [] c = "z" -> 122
      [] OTHER -> 63

\* s <= t in Go's string order
RECURSIVE StrLeq(_, _)
StrLeq(s, t) ==
    IF s = <<>> THEN TRUE
    ELSE IF t = <<>> THEN FALSE
    ELSE IF Ord(Head(s)) < Ord(Head(t)) THEN TRUE
    ELSE IF Ord(Head(s)) > Ord(Head(t)) THEN FALSE
    ELSE StrLeq(Tail(s), Tail(t))

\* the sequences that list xs in some order
Orders(xs) ==
    { [i \in 1..Len(xs) |-> xs[p[i]]] :
        p \in { q \in [1..Len(xs) -> 1..Len(xs)] :
                  \A i, j \in 1..Len(xs) : i # j => q[i] # q[j] } }

\* sort.Strings(xs)
SortStrings(xs) ==
    CHOOSE ys \in Orders(xs) : \A i \in 1..(Len(ys) - 1) : StrLeq(ys[i], ys[i + 1])

\* s[len(s)-k:]
Suffix(s, k) == SubSeq(s, Len(s) - k + 1, Len(s))

\* position of the last "." in s, 0 if none
LastDot(s) ==
    IF \E i \in 1..Len(s) : s[i] = "."
    THEN CHOOSE i \in 1..Len(s) : s[i] = "." /\ \A j \in (i + 1)..Len(s) : s[j] # "."
    ELSE 0

baseNoExt(fileStr) ==
    IF LastDot(fileStr) > 0 THEN SubSeq(fileStr, 1, LastDot(fileStr) - 1) ELSE fileStr

getFontKey(familyStr, styleStr) ==
    LET fam == ToLower(familyStr)
        sty == ToUpper(styleStr)
    IN  fam \o (IF sty = <<"I", "B">> THEN <<"B", "I">> ELSE sty)

----------------------------------------------------------------------------
(* Bytes and compression *)

RECURSIVE SumBytes(_)
SumBytes(b) == IF b = <<>> THEN 0 ELSE Head(b) + SumBytes(Tail(b))

\* zlib framing: two header bytes, the deflate body, a checksum of the
\* uncompressed bytes.  The body is modelled as one stored block (a length
\* byte followed by the bytes themselves).
zlibCompress(data) == <<120, 1, Len(data)>> \o data \o <<SumBytes(data) % 251>>

zlibValid(z) ==
    /\ Len(z) >= 4
    /\ z[1] = 120 /\ z[2] = 1
    /\ z[3] = Len(z) - 4
    /\ z[Len(z)] = SumBytes(SubSeq(z, 4, Len(z) - 1)) % 251

zlibUncompress(z) == SubSeq(z, 4, Len(z) - 1)

\* little-endian uint32
LE32(b, off) == b[off + 1] + 256 * b[off + 2] + 65536 * b[off + 3] + 16777216 * b[off + 4]

\* s[lo:hi] of a Go slice of length Len(s); out of range panics
SliceOK(s, lo, hi) == 0 <= lo /\ lo <= hi /\ hi <= Len(s)
Slice(s, lo, hi) == SubSeq(s, lo + 1, hi)

----------------------------------------------------------------------------
(* The font directory *)

A_TTF  == <<"a", ".", "t", "t", "f">>
AIB_TTF == <<"a", "i", "b", ".", "t", "t", "f">>
N_TTF  == <<"n", ".", "t", "t", "f">>
T_PFB  == <<"t", ".", "p", "f", "b">>
T_AFM  == <<"t", ".", "a", "f", "m">>
R_JSON == <<"r", ".", "j", "s", "o", "n">>
U_JSON == <<"u", ".", "j", "s", "o", "n">>
W_JSON == <<"w", ".", "j", "s", "o", "n">>
A_JSON == <<"a", ".", "j", "s", "o", "n">>
T_JSON == <<"t", ".", "j", "s", "o", "n">>
CP1252_MAP == <<"cp1252", ".", "m", "a", "p">>
ISO_MAP    == <<"iso", ".", "m", "a", "p">>

\* a well-formed line "!<pos> U+<uv> <name>" of an encoding map
MapLine(pos, uv, name) == [wf |-> TRUE, pos |-> pos, uv |-> uv, name |-> name]

Cp1252Lines ==
    << MapLine(32, 32, "space"), MapLine(65, 65, "A"),
       MapLine(128, 8364, "Euro"), MapLine(255, 255, "ydieresis") >>

IsoLines ==
    << MapLine(32, 32, "space"), MapLine(65, 65, "A"),
       MapLine(164, 8364, "Euro"), MapLine(165, 352, "Scaron"),
       MapLine(255, 255, "ydieresis") >>

\* the two segments of t.pfb
Seg1Data == <<37, 33, 80, 83, 45, 65, 100>>
Seg2Data == <<201, 202, 203, 204, 205, 206, 207, 208, 209, 210,
              211, 212, 213, 214, 215, 216, 217, 218, 219, 220>>

SegHeader(tp, data) == <<128, tp, Len(data) % 256, Len(data) \div 256, 0, 0>>

PfbBytes == SegHeader(1, Seg1Data) \o Seg1Data \o SegHeader(2, Seg2Data) \o Seg2Data

\* the zero value of fontType
ZeroDesc ==
    [Ascent |-> 0, Descent |-> 0, CapHeight |-> 0, Flags |-> 0,
     FontBBox |-> [Xmin |-> 0, Ymin |-> 0, Xmax |-> 0, Ymax |-> 0],
     ItalicAngle |-> 0, StemV |-> 0, MissingWidth |-> 0]

ZeroInfo ==
    [Tp |-> "", Name |-> "", File |-> <<>>, Diff |-> "", DiffN |-> 0,
     I |-> 0, N |-> 0, Size1 |-> 0, Size2 |-> 0, OriginalSize |-> 0,
     Data |-> <<>>, Bold |-> FALSE, IsFixedPitch |-> FALSE, Ut |-> 0, Up |-> 0,
     Desc |-> ZeroDesc, Cw |-> [j \in 0..255 |-> 0]]

\* the zero value of TtfType
ZeroTtf ==
    [PostScriptName |-> "", Embeddable |-> FALSE, UnitsPerEm |-> 0,
     Bold |-> FALSE, ItalicAngle |-> 0, IsFixedPitch |-> FALSE,
     TypoAscender |-> 0, TypoDescender |-> 0,
     UnderlineThickness |-> 0, UnderlinePosition |-> 0,
     Xmin |-> 0, Ymin |-> 0, Xmax |-> 0, Ymax |-> 0, CapHeight |-> 0,
     Widths |-> <<>>, Chars |-> <<>>]

\* the tables of the TrueType files of the font directory: 2048 units per
\* em, glyph 0 and glyphs for U+0020 and U+0041.  Widths is indexed from 0,
\* Chars maps a 16-bit codepoint to a glyph index.
DirTtf(name, embeddable) ==
    [ZeroTtf EXCEPT !.PostScriptName = name, !.Embeddable = embeddable,
                    !.UnitsPerEm = 2048, !.TypoAscender = 1434, !.TypoDescender = -434,
                    !.UnderlineThickness = 150, !.UnderlinePosition = -217,
                    !.Xmin = -100, !.Ymin = -434, !.Xmax = 2000, !.Ymax = 1800,
                    !.Widths = [g \in 0..2 |-> IF g = 0 THEN 1229 ELSE IF g = 1 THEN 569 ELSE 1366],
                    !.Chars = (32 :> 1) @@ (65 :> 2)]

TtfFile(bytes, name, embeddable) ==
    [kind |-> "ttf", bytes |-> bytes, ttf |-> DirTtf(name, embeddable)]

JsonFile(info) == [kind |-> "json", info |-> info]

\* a definition file written by hand for the uncompressed Type1 program t.pfb
RawType1Def ==
    [ZeroInfo EXCEPT !.Tp = "Type1", !.Name = "FontT", !.File = T_PFB,
                     !.Size1 = Len(Seg1Data), !.Size2 = Len(Seg2Data),
                     !.OriginalSize = Len(Seg1Data) + Len(Seg2Data),
                     !.Diff = "255 /yuml"]

\* a definition file written by hand that embeds the file t.pfb in one piece
WholeType1Def ==
    [ZeroInfo EXCEPT !.Tp = "Type1", !.Name = "FontT", !.File = T_PFB,
                     !.OriginalSize = Len(PfbBytes),
                     !.Diff = "255 /yuml"]

\* a definition file naming a font kind the emitter does not know
UnknownKindDef ==
    [ZeroInfo EXCEPT !.Tp = "Type3", !.Name = "FontU", !.Diff = "255 /yuml"]

BaseDir ==
    (A_TTF :> TtfFile(<<0, 1, 0, 0, 7>>, "FontA", TRUE))
 @@ (AIB_TTF :> TtfFile(<<0, 1, 0, 0, 8, 9>>, "FontAIB", TRUE))
 @@ (N_TTF :> TtfFile(<<0, 1, 0, 0, 5>>, "FontN", FALSE))
 @@ (T_PFB :> [kind |-> "pfb", bytes |-> PfbBytes])
 @@ (T_AFM :> [kind |-> "afm", bytes |-> <<70>>, FontName |-> "FontT"])
 @@ (R_JSON :> JsonFile(RawType1Def))
 @@ (U_JSON :> JsonFile(UnknownKindDef))
 @@ (W_JSON :> JsonFile(WholeType1Def))
 @@ (ISO_MAP :> [kind |-> "map", lines |-> IsoLines])

MapDir == (CP1252_MAP :> [kind |-> "map", lines |-> Cp1252Lines])

Exists(dirv, name) == name \in DOMAIN dirv

----------------------------------------------------------------------------
(* Encoding maps *)

\* encList before loadMap has run: the zero value of encListType
ZeroEncList == [j \in 0..255 |-> [uv |-> 0, name |-> ""]]
NotdefEncList == [j \in 0..255 |-> [uv |-> -1, name |-> ".notdef"]]

\* the scanner loop that keeps the first entry written to a slot
RECURSIVE loadMapScan_FirstWins(_, _, _)
loadMapScan_FirstWins(lines, i, encList) ==
    IF i > Len(lines) THEN [encList |-> encList, err |-> "nil", panic |-> FALSE]
    ELSE IF ~lines[i].wf
    THEN [encList |-> encList, err |-> "input does not match format", panic |-> FALSE]
    ELSE IF lines[i].pos < 256
    THEN IF lines[i].pos < 0
         THEN [encList |-> encList, err |-> "nil", panic |-> TRUE]
         ELSE loadMapScan_FirstWins(lines, i + 1,
                  IF encList[lines[i].pos].name # ".notdef" THEN encList
                  ELSE [encList EXCEPT ![lines[i].pos] =
                          [uv |-> lines[i].uv, name |-> lines[i].name]])
    ELSE [encList |-> encList, err |-> "map position exceeds 0xFF", panic |-> FALSE]

\* the scanner loop of loadMap from line i on
RECURSIVE loadMapScan(_, _, _)
loadMapScan(lines, i, encList) ==
    IF i > Len(lines) THEN [encList |-> encList, err |-> "nil", panic |-> FALSE]
    ELSE IF ~lines[i].wf
    THEN [encList |-> encList, err |-> "input does not match format", panic |-> FALSE]
    ELSE IF lines[i].pos < 256
    THEN IF lines[i].pos < 0
         THEN [encList |-> encList, err |-> "nil", panic |-> TRUE]
         ELSE loadMapScan(lines, i + 1,
                  [encList EXCEPT ![lines[i].pos] =
                      [uv |-> lines[i].uv, name |-> lines[i].name]])
    ELSE [encList |-> encList, err |-> "map position exceeds 0xFF", panic |-> FALSE]

loadMap(dirv, encodingFileStr) ==
    IF Exists(dirv, encodingFileStr) /\ dirv[encodingFileStr].kind = "map"
    THEN loadMapScan(dirv[encodingFileStr].lines, 1, NotdefEncList)
    ELSE [encList |-> ZeroEncList, err |-> "open: no such file", panic |-> FALSE]

\* the loop that prints the position before every name
RECURSIVE makeFontEncodingLoop_AlwaysNumber(_, _, _, _, _)
makeFontEncodingLoop_AlwaysNumber(encList, refList, j, lastj, buf) ==
    LET differing == { i \in j..255 : encList[i].name # refList[i].name }
        d == CHOOSE i \in differing : \A i2 \in differing : i <= i2
    IN  IF differing = {} THEN buf
        ELSE makeFontEncodingLoop_AlwaysNumber(encList, refList, d + 1, d,
                 buf \o <<ToString(d)>> \o <<"/" \o encList[d].name>>)

\* the loop of makeFontEncoding from position j on; buf is what was printed.
\* Positions where the names agree leave last and buf as they are, so the
\* loop moves on to the next position d where they differ.
RECURSIVE makeFontEncodingLoop(_, _, _, _, _)
makeFontEncodingLoop(encList, refList, j, lastj, buf) ==
    LET differing == { i \in j..255 : encList[i].name # refList[i].name }
        d == CHOOSE i \in differing : \A i2 \in differing : i <= i2
    IN  IF differing = {} THEN buf
        ELSE makeFontEncodingLoop(encList, refList, d + 1, d,
                 buf \o (IF d # lastj + 1 THEN <<ToString(d)>> ELSE <<>>)
                     \o <<"/" \o encList[d].name>>)

\* printed items each end in a blank; strings.TrimSpace drops the last one
RECURSIVE JoinBlank(_)
JoinBlank(items) ==
    IF items = <<>> THEN ""
    ELSE IF Len(items) = 1 THEN items[1]
    ELSE items[1] \o " " \o JoinBlank(Tail(items))

makeFontEncoding(dirv, encList, refEncFileStr) ==
    LET ref == loadMap(dirv, refEncFileStr)
    IN  IF ref.err # "nil" THEN [diffStr |-> "", err |-> ref.err]
        ELSE [diffStr |-> JoinBlank(makeFontEncodingLoop(encList, ref.encList, 32, 0, <<>>)),
              err |-> "nil"]

----------------------------------------------------------------------------
(* Extractors *)

\* the external TrueType parser: it accepts TrueType files only
TtfParse(dirv, fileStr) ==
    IF Exists(dirv, fileStr) /\ dirv[fileStr].kind = "ttf"
    THEN [ttf |-> dirv[fileStr].ttf, err |-> "nil"]
    ELSE [ttf |-> ZeroTtf, err |-> "ttf: cannot parse"]

\* round(1000.0 / float64(unitsPerEm) * float64(v)): the product is num/den
\* with den > 0, and round takes floor(f + 0.5), or -floor(-f + 0.5) for f < 0
\* the error of the extractor for a font whose license forbids embedding
PolicyError == "font license does not allow embedding"

round(num, den) ==
    IF num < 0 THEN -((2 * (-num) + den) \div (2 * den))
    ELSE (2 * num + den) \div (2 * den)

\* uint16(uv)
uint16(uv) == uv % 65536

\* the width loop of getInfoFromTrueType for slot j: the width, and whether
\* the character was reported missing
slotWidth(ttf, encList, missingWidth, j) ==
    IF encList[j].name # ".notdef"
    THEN IF uint16(encList[j].uv) \in DOMAIN ttf.Chars
         THEN [wd |-> round(1000 * ttf.Widths[ttf.Chars[uint16(encList[j].uv)]],
                            ttf.UnitsPerEm),
               missing |-> FALSE]
         ELSE [wd |-> missingWidth, missing |-> TRUE]
    ELSE [wd |-> missingWidth, missing |-> FALSE]

\* msgs are the glyph names written to msgWriter as "Character %s is missing"
getInfoFromTrueType(dirv, fileStr, embed, encList) ==
    LET p   == TtfParse(dirv, fileStr)
        ttf == p.ttf
        upm == ttf.UnitsPerEm
        mw  == round(1000 * ttf.Widths[0], upm)
        reported == SelectSeq([i \in 1..256 |-> i - 1],
                              LAMBDA j : slotWidth(ttf, encList, mw, j).missing)
    IN  IF p.err # "nil" THEN [info |-> ZeroInfo, err |-> p.err, msgs |-> <<>>]
        ELSE IF embed /\ ~ttf.Embeddable
        THEN [info |-> ZeroInfo, err |-> PolicyError,
              msgs |-> <<>>]
        ELSE [info |-> [ZeroInfo EXCEPT
                          !.Data = IF embed THEN dirv[fileStr].bytes ELSE <<>>,
                          !.Name = ttf.PostScriptName,
                          !.Bold = ttf.Bold,
                          !.IsFixedPitch = ttf.IsFixedPitch,
                          !.Ut = round(1000 * ttf.UnderlineThickness, upm),
                          !.Up = round(1000 * ttf.UnderlinePosition, upm),
                          !.Desc = [ZeroDesc EXCEPT
                              !.ItalicAngle = ttf.ItalicAngle,
                              !.Ascent = round(1000 * ttf.TypoAscender, upm),
                              !.Descent = round(1000 * ttf.TypoDescender, upm),
                              !.FontBBox = [Xmin |-> round(1000 * ttf.Xmin, upm),
                                            Ymin |-> round(1000 * ttf.Ymin, upm),
                                            Xmax |-> round(1000 * ttf.Xmax, upm),
                                            Ymax |-> round(1000 * ttf.Ymax, upm)],
                              !.CapHeight = round(1000 * ttf.CapHeight, upm),
                              !.MissingWidth = mw],
                          !.Cw = [j \in 0..255 |-> slotWidth(ttf, encList, mw, j).wd]],
              msgs |-> [i \in 1..Len(reported) |-> encList[reported[i]].name],
              err |-> "nil"]

\* makeFontDescriptor that sets the italic bit for a bold font
makeFontDescriptor_ItalicFromBold(info) ==
    [info EXCEPT
        !.Desc = [@ EXCEPT
            !.CapHeight = IF @ = 0 THEN info.Desc.Ascent ELSE @,
            !.Flags = 32 + (IF info.IsFixedPitch THEN 1 ELSE 0)
                         + (IF info.Bold THEN 64 ELSE 0),
            !.StemV = IF @ = 0 THEN (IF info.Bold THEN 120 ELSE 70) ELSE @]]

\* makeFontDescriptor that adds the stem width default to the stem width
makeFontDescriptor_StemAdded(info) ==
    [info EXCEPT
        !.Desc = [@ EXCEPT
            !.CapHeight = IF @ = 0 THEN info.Desc.Ascent ELSE @,
            !.Flags = 32 + (IF info.IsFixedPitch THEN 1 ELSE 0)
                         + (IF info.Desc.ItalicAngle # 0 THEN 64 ELSE 0),
            !.StemV = IF @ < 100 THEN @ + (IF info.Bold THEN 120 ELSE 70) ELSE @]]

makeFontDescriptor(info) ==
    [info EXCEPT
        !.Desc = [@ EXCEPT
            !.CapHeight = IF @ = 0 THEN info.Desc.Ascent ELSE @,
            !.Flags = 32 + (IF info.IsFixedPitch THEN 1 ELSE 0)
                         + (IF info.Desc.ItalicAngle # 0 THEN 64 ELSE 0),
            !.StemV = IF @ = 0 THEN (IF info.Bold THEN 120 ELSE 70) ELSE @]]

\* segmentRead at offset off of the file bytes b
segmentRead(b, off) ==
    LET noSeg == [size |-> 0, data |-> <<>>]
    IN  IF off + 1 > Len(b) THEN [s |-> noSeg, err |-> "EOF", off |-> off]
        ELSE IF b[off + 1] # 128
        THEN [s |-> noSeg, err |-> "font file is not a valid binary Type1", off |-> off + 1]
        ELSE IF off + 2 > Len(b) THEN [s |-> noSeg, err |-> "EOF", off |-> off + 1]
        ELSE IF off + 6 > Len(b) THEN [s |-> noSeg, err |-> "unexpected EOF", off |-> Len(b)]
        ELSE LET size  == LE32(b, off + 2)
                 avail == Len(b) - (off + 6)
                 got   == IF size < avail THEN size ELSE avail
                 data  == [i \in 1..size |-> IF i <= got THEN b[off + 6 + i] ELSE 0]
             IN  [s |-> [size |-> size, data |-> data],
                  err |-> IF size > 0 /\ avail = 0 THEN "EOF" ELSE "nil",
                  off |-> off + 6 + got]

\* getInfoFromType1 that stores the first segment before it reads the second
getInfoFromType1_EagerData(dirv, fileStr, embed, encList) ==
    LET opened == Exists(dirv, fileStr)
        bytes  == IF opened THEN dirv[fileStr].bytes ELSE <<>>
        r1     == segmentRead(bytes, 0)
        r2     == segmentRead(bytes, r1.off)
        first  == [ZeroInfo EXCEPT !.Data = r1.s.data, !.Size1 = r1.s.size]
    IN  IF embed /\ ~opened THEN [info |-> ZeroInfo, err |-> "open: no such file"]
        ELSE IF embed /\ r1.err # "nil" THEN [info |-> ZeroInfo, err |-> r1.err]
        ELSE IF embed /\ r2.err # "nil" THEN [info |-> first, err |-> r2.err]
        ELSE [info |-> [first EXCEPT !.Data = r1.s.data \o r2.s.data,
                                     !.Size2 = r2.s.size],
              err |-> "font file (ATM) not found"]

getInfoFromType1(dirv, fileStr, embed, encList) ==
    LET opened == Exists(dirv, fileStr)
        bytes  == IF opened /\ dirv[fileStr].kind # "json" /\ dirv[fileStr].kind # "map"
                     /\ dirv[fileStr].kind # "afm"
                  THEN dirv[fileStr].bytes ELSE <<>>
        r1     == segmentRead(bytes, 0)
        r2     == segmentRead(bytes, r1.off)
        info1  == IF embed
                  THEN [ZeroInfo EXCEPT !.Data = r1.s.data \o r2.s.data,
                                        !.Size1 = r1.s.size, !.Size2 = r2.s.size]
                  ELSE ZeroInfo
        afmFileStr == SubSeq(fileStr, 1, Len(fileStr) - 3) \o <<"a", "f", "m">>
    IN  IF embed /\ ~opened THEN [info |-> ZeroInfo, err |-> "open: no such file"]
        ELSE IF embed /\ r1.err # "nil" THEN [info |-> ZeroInfo, err |-> r1.err]
        ELSE IF embed /\ r2.err # "nil" THEN [info |-> ZeroInfo, err |-> r2.err]
        ELSE IF ~Exists(dirv, afmFileStr) THEN [info |-> info1, err |-> "font file (ATM) not found"]
        ELSE IF dirv[afmFileStr].kind # "afm"
        THEN [info |-> info1, err |-> "the field FontName missing in AFM file"]
        ELSE IF Len(dirv[afmFileStr].bytes) = 0
        THEN [info |-> info1, err |-> "font file (AFM) empty or not readable"]
        ELSE IF dirv[afmFileStr].FontName = ""
        THEN [info |-> info1, err |-> "the field FontName missing in AFM file"]
        ELSE [info |-> [info1 EXCEPT !.Name = dirv[afmFileStr].FontName], err |-> "nil"]

----------------------------------------------------------------------------
(* The definition-file generator *)

makeDefinitionFile(dirv, fileStr, encodingFileStr, embed, encList, info) ==
    LET enc == makeFontEncoding(dirv, encList, CP1252_MAP)
    IN  IF enc.err # "nil" THEN [dir |-> dirv, err |-> enc.err]
        ELSE [dir |-> (fileStr :> JsonFile([makeFontDescriptor(info)
                                              EXCEPT !.Diff = enc.diffStr,
                                                     !.OriginalSize = Len(info.Data)]))
                       @@ dirv,
              err |-> "nil"]

MakeFont(dirv, fontFileStr, encodingFileStr, embed) ==
    LET extStr  == ToLower(Suffix(fontFileStr, 3))
        tpStr   == IF extStr = <<"t", "t", "f">> \/ extStr = <<"o", "t", "f">> THEN "TrueType"
                   ELSE IF extStr = <<"p", "f", "b">> THEN "Type1" ELSE ""
        map     == loadMap(dirv, encodingFileStr)
        ex      == IF tpStr = "TrueType"
                   THEN getInfoFromTrueType(dirv, fontFileStr, embed, map.encList)
                   ELSE getInfoFromType1(dirv, fontFileStr, embed, map.encList)
        baseStr == baseNoExt(fontFileStr)
        zName   == baseStr \o <<".", "z">>
        info    == [ex.info EXCEPT !.Tp = tpStr,
                                   !.File = IF embed THEN zName ELSE <<>>]
        dirz    == IF embed
                   THEN (zName :> [kind |-> "z", bytes |-> zlibCompress(info.Data)]) @@ dirv
                   ELSE dirv
    IN  IF ~Exists(dirv, fontFileStr) THEN [dir |-> dirv, err |-> "font file not found"]
        ELSE IF tpStr = "" THEN [dir |-> dirv, err |-> "unrecognized font file extension"]
        ELSE IF map.err # "nil" THEN [dir |-> dirv, err |-> map.err]
        ELSE IF ex.err # "nil" THEN [dir |-> dirv, err |-> ex.err]
        ELSE makeDefinitionFile(dirz, baseStr \o <<".", "j", "s", "o", "n">>,
                                encodingFileStr, embed, map.encList, info)

----------------------------------------------------------------------------
(* The registry.  reg is the record [fonts, diffs, err] of the session.     *)

TTF_EXT == <<".", "t", "t", "f">>

\* the file name used when fileStr is empty
DefaultFileStr(familyStr, styleStr, fileStr) ==
    IF fileStr = <<>>
    THEN RemoveCh(familyStr, " ") \o ToLower(styleStr) \o TTF_EXT
    ELSE fileStr

\* index (1-based) of the first entry of ds equal to str, 0 if none
DiffIndex(ds, str) ==
    IF \E j \in 1..Len(ds) : ds[j] = str
    THEN CHOOSE j \in 1..Len(ds) : ds[j] = str /\ \A i \in 1..(j - 1) : ds[i] # str
    ELSE 0

\* addFontFromInfo with the index taken from the differences list
addFontFromInfo_IndexFromDiffs(reg, info, fontkey) ==
    LET found  == DiffIndex(reg.diffs, info.Diff)
        ds     == IF info.Diff # "" /\ found = 0
                  THEN Append(reg.diffs, info.Diff) ELSE reg.diffs
        info1  == [info EXCEPT
                     !.I = Len(reg.diffs),
                     !.DiffN = IF info.Diff # ""
                               THEN (IF found = 0 THEN Len(ds) ELSE found)
                               ELSE info.DiffN]
    IN  [reg EXCEPT !.fonts = (fontkey :> info1) @@ reg.fonts, !.diffs = ds]

\* addFontFromInfo without the search of the existing differences
addFontFromInfo_NoSearch(reg, info, fontkey) ==
    LET ds     == IF info.Diff # "" THEN Append(reg.diffs, info.Diff) ELSE reg.diffs
        info1  == [info EXCEPT
                     !.I = Cardinality(DOMAIN reg.fonts),
                     !.DiffN = IF info.Diff # "" THEN Len(ds) ELSE info.DiffN]
    IN  [reg EXCEPT !.fonts = (fontkey :> info1) @@ reg.fonts, !.diffs = ds]

addFontFromInfo(reg, info, fontkey) ==
    LET found  == DiffIndex(reg.diffs, info.Diff)
        ds     == IF info.Diff # "" /\ found = 0
                  THEN Append(reg.diffs, info.Diff) ELSE reg.diffs
        info1  == [info EXCEPT
                     !.I = Cardinality(DOMAIN reg.fonts),
                     !.DiffN = IF info.Diff # ""
                               THEN (IF found = 0 THEN Len(ds) ELSE found)
                               ELSE info.DiffN]
    IN  [reg EXCEPT !.fonts = (fontkey :> info1) @@ reg.fonts, !.diffs = ds]

\* the JSON definition reader: r is the content the reader delivers
loadfont(r) ==
    IF r.kind = "json" THEN [info |-> r.info, err |-> "nil"]
    ELSE [info |-> ZeroInfo, err |-> "json: invalid character"]

\* AddFontFromReader without the test for a registered key
AddFontFromReader_Overwrite(reg, familyStr, styleStr, r) ==
    LET fontkey == getFontKey(familyStr, styleStr)
        l       == loadfont(r)
    IN  IF reg.err # "nil" THEN reg
        ELSE IF l.err # "nil" THEN [reg EXCEPT !.err = l.err]
        ELSE addFontFromInfo(reg, l.info, fontkey)

AddFontFromReader(reg, familyStr, styleStr, r) ==
    LET fontkey == getFontKey(familyStr, styleStr)
        l       == loadfont(r)
    IN  IF reg.err # "nil" THEN reg
        ELSE IF fontkey \in DOMAIN reg.fonts THEN reg
        ELSE IF l.err # "nil" THEN [reg EXCEPT !.err = l.err]
        ELSE addFontFromInfo(reg, l.info, fontkey)

\* AddFont of part_001 (f.fontLoader is nil)
AddFont(reg, dirv, familyStr, styleStr, fileStr) ==
    LET name == DefaultFileStr(familyStr, styleStr, fileStr)
    IN  IF ~Exists(dirv, name) THEN [reg EXCEPT !.err = "open: no such file"]
        ELSE AddFontFromReader(reg, familyStr, styleStr, dirv[name])

\* the extraction inside AddTTFFont and inside AddFont of font.go
TTFExtraction(dirv, familyStr, styleStr, fileStr) ==
    LET map == loadMap(dirv, CP1252_MAP)
    IN  IF map.err # "nil" THEN [info |-> ZeroInfo, err |-> map.err]
        ELSE getInfoFromTrueType(dirv, DefaultFileStr(familyStr, styleStr, fileStr),
                                 TRUE, map.encList)

AddTTFFont(reg, dirv, familyStr, styleStr, fileStr) ==
    LET fontkey == getFontKey(familyStr, styleStr)
        FileStr == DefaultFileStr(familyStr, styleStr, fileStr)
        ex      == TTFExtraction(dirv, familyStr, styleStr, fileStr)
        info    == [makeFontDescriptor([ex.info EXCEPT !.Tp = "TrueType"])
                       EXCEPT !.OriginalSize = Len(ex.info.Data),
                              !.File = FileStr]
    IN  IF fontkey \in DOMAIN reg.fonts THEN reg
        ELSE IF ex.err # "nil" THEN AddFont(reg, dirv, familyStr, styleStr, fileStr)
        ELSE addFontFromInfo(reg, info, fontkey)

\* one frame of AddFont of font.go; recurse says that the frame calls
\* AddFont again with the arguments it was given
AddFont_fontgo(reg, dirv, familyStr, styleStr, fileStr) ==
    LET fontkey == getFontKey(familyStr, styleStr)
        FileStr == DefaultFileStr(familyStr, styleStr, fileStr)
        ex      == TTFExtraction(dirv, familyStr, styleStr, fileStr)
        info    == [makeFontDescriptor([ex.info EXCEPT !.Tp = "TrueType"])
                       EXCEPT !.OriginalSize = Len(ex.info.Data),
                              !.File = FileStr]
    IN  IF fontkey \in DOMAIN reg.fonts THEN [reg |-> reg, recurse |-> FALSE]
        ELSE IF ex.err # "nil" THEN [reg |-> reg, recurse |-> TRUE]
        ELSE [reg |-> addFontFromInfo(reg, info, fontkey), recurse |-> FALSE]

----------------------------------------------------------------------------
(* Font selection.  selv is the record of the selection fields of Fpdf.     *)

K == 1      \* f.k of a document whose unit of measure is the point

ARIAL     == <<"a", "r", "i", "a", "l">>
HELVETICA == <<"h", "e", "l", "v", "e", "t", "i", "c", "a">>
SYMBOL    == <<"s", "y", "m", "b", "o", "l">>
ZAPF      == <<"z", "a", "p", "f", "d", "i", "n", "g", "b", "a", "t", "s">>
COURIER   == <<"c", "o", "u", "r", "i", "e", "r">>
TIMES     == <<"t", "i", "m", "e", "s">>

coreFonts == {COURIER, HELVETICA, TIMES, SYMBOL, ZAPF}

\* the embedded definition of a core font
coreFontReader(familyStr, styleStr) ==
    JsonFile([ZeroInfo EXCEPT !.Tp = "Core",
                              !.Name = IF familyStr = HELVETICA THEN "Helvetica"
                                       ELSE IF familyStr = ZAPF THEN "ZapfDingbats"
                                       ELSE "Core"])

\* "BT /F%d %.2f Tf ET"
TfOp(info, sizePt) == [I |-> info.I, size |-> sizePt]

\* the part of SetFont that both builds share: normalised arguments
SetFontArgs(selv, familyStr, styleStr, size) ==
    LET fam  == IF familyStr = <<>> THEN selv.fontFamily ELSE ToLower(familyStr)
        up   == ToUpper(styleStr)
        und  == ContainsCh(up, "U")
        sty0 == IF und THEN RemoveCh(up, "U") ELSE up
        sty  == IF sty0 = <<"I", "B">> THEN <<"B", "I">> ELSE sty0
        sz   == IF size = 0 THEN selv.fontSizePt ELSE size
    IN  [familyStr |-> fam, styleStr |-> sty, underline |-> und, size |-> sz]

\* the tail of SetFont: "Select it"
SelectFont(selv, reg, pg, po, fam, sty, und, sz, fontkey) ==
    [sel |-> [fontFamily |-> fam, fontStyle |-> sty, fontSizePt |-> sz,
              fontSize |-> sz \div K, underline |-> und,
              currentFont |-> reg.fonts[fontkey]],
     reg |-> reg,
     pageOut |-> IF pg > 0 THEN Append(po, TfOp(reg.fonts[fontkey], sz)) ELSE po]

\* SetFont; coreLoads says whether this build loads core fonts on demand
\* (part_001) or gives up when one is not registered (font.go)
SetFontOf(coreLoads, selv, reg, pg, po, familyStr, styleStr, size) ==
    LET a     == SetFontArgs(selv, familyStr, styleStr, size)
        selU  == [selv EXCEPT !.underline = a.underline]
        same  == [sel |-> selU, reg |-> reg, pageOut |-> po]
        key1  == a.familyStr \o a.styleStr
        fam2  == IF a.familyStr = ARIAL THEN HELVETICA ELSE a.familyStr
        fam3  == IF fam2 = SYMBOL THEN ZAPF ELSE fam2
        sty3  == IF fam3 = ZAPF THEN <<>> ELSE a.styleStr
        key3  == fam3 \o sty3
        reg3  == AddFontFromReader(reg, fam3, sty3, coreFontReader(fam3, sty3))
    IN  IF reg.err # "nil" THEN [sel |-> selv, reg |-> reg, pageOut |-> po]
        ELSE IF selv.fontFamily = a.familyStr /\ selv.fontStyle = a.styleStr
                /\ selv.fontSizePt = a.size
        THEN same
        ELSE IF key1 \in DOMAIN reg.fonts
        THEN SelectFont(selU, reg, pg, po, a.familyStr, a.styleStr, a.underline, a.size, key1)
        ELSE IF fam2 \notin coreFonts
        THEN [sel |-> selU, reg |-> [reg EXCEPT !.err = "undefined font"], pageOut |-> po]
        ELSE IF key3 \in DOMAIN reg.fonts
        THEN SelectFont(selU, reg, pg, po, fam3, sty3, a.underline, a.size, key3)
        ELSE IF ~coreLoads THEN same
        ELSE IF reg3.err # "nil" THEN [sel |-> selU, reg |-> reg3, pageOut |-> po]
        ELSE SelectFont(selU, reg3, pg, po, fam3, sty3, a.underline, a.size, key3)

SetFont(selv, reg, pg, po, familyStr, styleStr, size) ==
    SetFontOf(TRUE, selv, reg, pg, po, familyStr, styleStr, size)

SetFont_fontgo(selv, reg, pg, po, familyStr, styleStr, size) ==
    SetFontOf(FALSE, selv, reg, pg, po, familyStr, styleStr, size)

SetFontSize(selv, pg, po, size) ==
    IF selv.fontSizePt = size THEN [sel |-> selv, pageOut |-> po]
    ELSE [sel |-> [selv EXCEPT !.fontSizePt = size, !.fontSize = size \div K],
          pageOut |-> IF pg > 0 THEN Append(po, TfOp(selv.currentFont, size)) ELSE po]

SetFontUnitSize(selv, pg, po, size) ==
    IF selv.fontSize = size THEN [sel |-> selv, pageOut |-> po]
    ELSE [sel |-> [selv EXCEPT !.fontSizePt = size * K, !.fontSize = size],
          pageOut |-> IF pg > 0 THEN Append(po, TfOp(selv.currentFont, size * K)) ELSE po]

----------------------------------------------------------------------------
(* The emitter.  An object is a record; fields that an object does not     *)
(* declare hold -1 (numbers), "" (names) or <<>>.  key, file and tp are not *)
(* written: they record which font the object was emitted for.             *)

NoObj ==
    [n |-> 0, type |-> "", key |-> <<>>, file |-> <<>>, tp |-> "", diff |-> "",
     Length |-> -1, Filter |-> "", Length1 |-> -1, Length2 |-> -1, Length3 |-> -1,
     data |-> <<>>, BaseFont |-> "", Subtype |-> "", Widths |-> -1,
     FontDescriptor |-> -1, Encoding |-> "", EncodingRef |-> -1,
     FontFile |-> "", FontFileRef |-> -1]

\* the object-graph writer: newobj allocates the next object number
newobj(nv) == nv + 1

\* the sequences that list the elements of the set S once each
KeySeqs(S) ==
    { q \in [1..Cardinality(S) -> S] :
        \A i, j \in 1..Cardinality(S) : i # j => q[i] # q[j] }

\* "for _, diff := range f.diffs": one encoding object per entry
putEncodings(nf, ds) ==
    [j \in 1..Len(ds) |->
        [NoObj EXCEPT !.n = nf + j, !.type = "Encoding", !.diff = ds[j]]]

\* the files of the fonts in map iteration order ks, and the lookup table
FileListOf(fs, ks) ==
    LET WithFile == SelectSeq(ks, LAMBDA k : Len(fs[k].File) > 0)
    IN  [i \in 1..Len(WithFile) |-> fs[WithFile[i]].File]

LookupOf(fs, ks) ==
    [file \in { fs[k].File : k \in { k \in DOMAIN fs : Len(fs[k].File) > 0 } } |->
        LET hits == { i \in 1..Len(ks) : fs[ks[i]].File = file }
            lastHit == CHOOSE i \in hits : \A j \in hits : j <= i
        IN  fs[ks[lastHit]]]

\* loadFontFile (f.fontLoader is nil): the bytes of the file
loadFontFile(dirv, name) ==
    IF Exists(dirv, name) /\ dirv[name].kind \in {"ttf", "pfb", "z", "afm"}
    THEN [data |-> dirv[name].bytes, err |-> "nil"]
    ELSE IF Exists(dirv, name) THEN [data |-> <<>>, err |-> "nil"]
    ELSE [data |-> <<>>, err |-> "open: no such file"]

\* the font file loop body with /Length1 taken from the bytes written
putFontFile_LengthWritten(dirv, info, acc) ==
    LET nv         == newobj(acc.n)
        ld         == loadFontFile(dirv, info.File)
        font       == ld.data
        compressed == Suffix(info.File, 2) = <<".", "z">>
        header     == [NoObj EXCEPT !.n = nv, !.type = "Stream", !.file = info.File,
                                    !.tp = info.Tp]
    IN  IF ld.err # "nil"
        THEN [acc EXCEPT !.n = nv, !.objs = Append(@, header), !.err = ld.err]
        ELSE [acc EXCEPT !.n = nv,
                !.objs = Append(@,
                    [header EXCEPT !.Length = Len(font),
                                   !.Filter = IF compressed THEN "FlateDecode" ELSE "",
                                   !.Length1 = Len(font),
                                   !.Length2 = IF info.Size2 > 0 THEN info.Size2 ELSE -1,
                                   !.Length3 = IF info.Size2 > 0 THEN 0 ELSE -1,
                                   !.data = font])]

\* the body of the font file loop for one file; acc is [n, objs, err, crashed]
putFontFile(dirv, info, acc) ==
    LET nv         == newobj(acc.n)
        ld         == loadFontFile(dirv, info.File)
        font       == ld.data
        compressed == Suffix(info.File, 2) = <<".", "z">>
        split      == ~compressed /\ info.Size2 > 0
        ok1        == SliceOK(font, 6, info.Size1)
        ok2        == SliceOK(font, 6 + info.Size1 + 6, info.Size2)
        font2      == IF split
                      THEN Slice(font, 6, info.Size1)
                           \o Slice(font, 6 + info.Size1 + 6, info.Size2)
                      ELSE font
        length     == IF split THEN info.Size1 ELSE info.OriginalSize
        header     == [NoObj EXCEPT !.n = nv, !.type = "Stream", !.file = info.File,
                                    !.tp = info.Tp]
    IN  IF ld.err # "nil"
        THEN [acc EXCEPT !.n = nv, !.objs = Append(@, header), !.err = ld.err]
        ELSE IF split /\ ~(ok1 /\ ok2)
        THEN [acc EXCEPT !.n = nv, !.objs = Append(@, header),
                         !.crashed = "panic: slice bounds out of range"]
        ELSE [acc EXCEPT !.n = nv,
                !.objs = Append(@,
                    [header EXCEPT !.Length = Len(font2),
                                   !.Filter = IF compressed THEN "FlateDecode" ELSE "",
                                   !.Length1 = length,
                                   !.Length2 = IF info.Size2 > 0 THEN info.Size2 ELSE -1,
                                   !.Length3 = IF info.Size2 > 0 THEN 0 ELSE -1,
                                   !.data = font2])]

RECURSIVE putFontFiles(_, _, _, _, _)
putFontFiles(dirv, fileList, lookup, i, acc) ==
    IF i > Len(fileList) \/ acc.err # "nil" \/ acc.crashed # "no" THEN acc
    ELSE putFontFiles(dirv, fileList, lookup, i + 1,
                      putFontFile(dirv, lookup[fileList[i]], acc))

\* the font loop body with the encoding reference counted from the
\* differences index alone
putFontObjects_EncodingFromZero(nf, key, acc) ==
    LET origN == acc.n
        font  == [acc.fonts[key] EXCEPT !.N = acc.n + 1]
        fs    == [acc.fonts EXCEPT ![key] = font]
        n1    == newobj(acc.n)
        n2    == newobj(n1)
        n3    == newobj(n2)
        dict  == [NoObj EXCEPT !.n = n1, !.type = "Font", !.key = key, !.tp = font.Tp,
                               !.BaseFont = font.Name]
    IN  IF font.Tp = "Core"
        THEN [acc EXCEPT !.fonts = fs, !.n = n1,
                !.objs = Append(@, [dict EXCEPT !.Subtype = "Type1",
                                                !.Encoding = "WinAnsiEncoding"])]
        ELSE IF font.Tp = "Type1" \/ font.Tp = "TrueType"
        THEN [acc EXCEPT !.fonts = fs, !.n = n3,
                !.objs = @ \o
                  << [dict EXCEPT !.Subtype = font.Tp, !.Widths = n1 + 1,
                                  !.FontDescriptor = n1 + 2,
                                  !.Encoding = IF font.DiffN > 0 THEN "" ELSE "WinAnsiEncoding",
                                  !.EncodingRef = IF font.DiffN > 0 THEN font.DiffN ELSE -1],
                     [NoObj EXCEPT !.n = n2, !.type = "Widths", !.key = key, !.tp = font.Tp],
                     [NoObj EXCEPT !.n = n3, !.type = "FontDescriptor", !.key = key,
                                   !.tp = font.Tp, !.file = font.File,
                                   !.FontFileRef = origN] >>]
        ELSE [acc EXCEPT !.fonts = fs, !.err = "unsupported font type"]

\* the font loop body that passes over a font of unknown kind
putFontObjects_SkipUnknown(nf, key, acc) ==
    LET font  == [acc.fonts[key] EXCEPT !.N = acc.n + 1]
        fs    == [acc.fonts EXCEPT ![key] = font]
        n1    == newobj(acc.n)
        dict  == [NoObj EXCEPT !.n = n1, !.type = "Font", !.key = key, !.tp = font.Tp,
                               !.BaseFont = font.Name]
    IN  IF font.Tp = "Core"
        THEN [acc EXCEPT !.fonts = fs, !.n = n1,
                !.objs = Append(@, [dict EXCEPT !.Subtype = "Type1",
                                                !.Encoding = "WinAnsiEncoding"])]
        ELSE IF font.Tp = "Type1" \/ font.Tp = "TrueType"
        THEN [acc EXCEPT !.fonts = fs, !.n = n1 + 2,
                !.objs = @ \o
                  << [dict EXCEPT !.Subtype = font.Tp, !.Widths = n1 + 1,
                                  !.FontDescriptor = n1 + 2,
                                  !.Encoding = IF font.DiffN > 0 THEN "" ELSE "WinAnsiEncoding",
                                  !.EncodingRef = IF font.DiffN > 0 THEN nf + font.DiffN ELSE -1],
                     [NoObj EXCEPT !.n = n1 + 1, !.type = "Widths", !.key = key, !.tp = font.Tp],
                     [NoObj EXCEPT !.n = n1 + 2, !.type = "FontDescriptor", !.key = key,
                                   !.tp = font.Tp, !.file = font.File,
                                   !.FontFileRef = acc.n] >>]
        ELSE [acc EXCEPT !.fonts = fs]

\* the font loop body that records f.n as it is before the dictionary
\* object is allocated
putFontObjects_NumberBeforeAlloc(nf, key, acc) ==
    LET origN == acc.n
        font  == [acc.fonts[key] EXCEPT !.N = acc.n]
        fs    == [acc.fonts EXCEPT ![key] = font]
        n1    == newobj(acc.n)
        n2    == newobj(n1)
        n3    == newobj(n2)
        dict  == [NoObj EXCEPT !.n = n1, !.type = "Font", !.key = key, !.tp = font.Tp,
                               !.BaseFont = font.Name]
    IN  IF font.Tp = "Core"
        THEN [acc EXCEPT !.fonts = fs, !.n = n1,
                !.objs = Append(@,
                    [dict EXCEPT !.Subtype = "Type1",
                                 !.Encoding = IF font.Name # "Symbol" /\ font.Name # "ZapfDingbats"
                                              THEN "WinAnsiEncoding" ELSE ""])]
        ELSE IF font.Tp = "Type1" \/ font.Tp = "TrueType"
        THEN [acc EXCEPT !.fonts = fs, !.n = n3,
                !.objs = @ \o
                  << [dict EXCEPT !.Subtype = font.Tp, !.Widths = n1 + 1,
                                  !.FontDescriptor = n1 + 2,
                                  !.Encoding = IF font.DiffN > 0 THEN "" ELSE "WinAnsiEncoding",
                                  !.EncodingRef = IF font.DiffN > 0 THEN nf + font.DiffN ELSE -1],
                     [NoObj EXCEPT !.n = n2, !.type = "Widths", !.key = key, !.tp = font.Tp],
                     [NoObj EXCEPT !.n = n3, !.type = "FontDescriptor", !.key = key,
                                   !.tp = font.Tp, !.file = font.File,
                                   !.FontFile = IF font.Tp # "Type1" THEN "FontFile2" ELSE "FontFile",
                                   !.FontFileRef = origN] >>]
        ELSE [acc EXCEPT !.fonts = fs, !.err = "unsupported font type"]

\* the body of the font loop for one key; acc is [fonts, n, objs, err, crashed]
putFontObjects(nf, key, acc) ==
    LET origN == acc.n
        font  == [acc.fonts[key] EXCEPT !.N = acc.n + 1]
        fs    == [acc.fonts EXCEPT ![key] = font]
        n1    == newobj(acc.n)
        n2    == newobj(n1)
        n3    == newobj(n2)
        dict  == [NoObj EXCEPT !.n = n1, !.type = "Font", !.key = key, !.tp = font.Tp,
                               !.BaseFont = font.Name]
    IN  IF font.Tp = "Core"
        THEN [acc EXCEPT !.fonts = fs, !.n = n1,
                !.objs = Append(@,
                    [dict EXCEPT !.Subtype = "Type1",
                                 !.Encoding = IF font.Name # "Symbol" /\ font.Name # "ZapfDingbats"
                                              THEN "WinAnsiEncoding" ELSE ""])]
        ELSE IF font.Tp = "Type1" \/ font.Tp = "TrueType"
        THEN [acc EXCEPT !.fonts = fs, !.n = n3,
                !.objs = @ \o
                  << [dict EXCEPT !.Subtype = font.Tp, !.Widths = n1 + 1,
                                  !.FontDescriptor = n1 + 2,
                                  !.Encoding = IF font.DiffN > 0 THEN "" ELSE "WinAnsiEncoding",
                                  !.EncodingRef = IF font.DiffN > 0 THEN nf + font.DiffN ELSE -1],
                     [NoObj EXCEPT !.n = n2, !.type = "Widths", !.key = key, !.tp = font.Tp],
                     [NoObj EXCEPT !.n = n3, !.type = "FontDescriptor", !.key = key,
                                   !.tp = font.Tp, !.file = font.File,
                                   !.FontFile = IF font.Tp # "Type1" THEN "FontFile2" ELSE "FontFile",
                                   !.FontFileRef = origN] >>]
        ELSE [acc EXCEPT !.fonts = fs, !.err = "unsupported font type"]

\* the font loop of font.go: TrueType is the only kind it emits
putFontObjects_fontgo(nf, key, acc) ==
    IF acc.fonts[key].Tp = "TrueType" THEN putFontObjects(nf, key, acc)
    ELSE [acc EXCEPT !.fonts = [acc.fonts EXCEPT ![key].N = acc.n + 1],
                     !.err = "unsupported font type"]

RECURSIVE putFontLoop(_, _, _, _, _)
putFontLoop(bld, nf, keyList, i, acc) ==
    IF i > Len(keyList) \/ acc.err # "nil" THEN acc
    ELSE putFontLoop(bld, nf, keyList, i + 1,
                     IF bld = "font.go" THEN putFontObjects_fontgo(nf, keyList[i], acc)
                     ELSE putFontObjects(nf, keyList[i], acc))

\* putfonts; ks1 and ks2 are the orders in which the two "range f.fonts"
\* loops deliver the keys
putfonts(bld, reg, nv, dirv, sorted, ks1, ks2) ==
    LET nf       == nv
        encs     == putEncodings(nf, reg.diffs)
        fl0      == FileListOf(reg.fonts, ks1)
        fileList == IF sorted THEN SortStrings(fl0) ELSE fl0
        keyList  == IF sorted THEN SortStrings(ks2) ELSE ks2
        files    == putFontFiles(dirv, fileList, LookupOf(reg.fonts, ks1), 1,
                        [n |-> nf + Len(reg.diffs), objs |-> encs, err |-> "nil",
                         crashed |-> "no"])
        done     == putFontLoop(bld, nf, keyList, 1,
                        [fonts |-> reg.fonts, n |-> files.n, objs |-> files.objs,
                         err |-> "nil", crashed |-> "no"])
    IN  IF reg.err # "nil"
        THEN [fonts |-> reg.fonts, n |-> nv, objs |-> <<>>, err |-> reg.err, crashed |-> "no"]
        ELSE IF files.err # "nil" \/ files.crashed # "no"
        THEN [fonts |-> reg.fonts, n |-> files.n, objs |-> files.objs,
              err |-> files.err, crashed |-> files.crashed]
        ELSE done

----------------------------------------------------------------------------
(* The session *)

\* family and style arguments of the registration calls
NameArgs   == { <<<<"a">>, <<>>>>, <<<<"A">>, <<>>>>,
                <<<<"a">>, <<"i", "b">>>>, <<<<"A">>, <<"B", "I">>>> }
JsonArgs   == {<<>>, R_JSON, U_JSON, A_JSON, T_JSON}
TtfArgs    == {<<>>, N_TTF, R_JSON}
SetFamilies == {<<"A", "r", "i", "a", "l">>, <<"x">>}
SetStyles  == {<<>>}
Sizes      == {14}
SetSizes   == {0}
FontSources == {A_TTF, T_PFB}
EncSources  == {CP1252_MAP, ISO_MAP}
EmbedArgs   == {TRUE}

NoArgs == [familyStr |-> <<>>, styleStr |-> <<>>, fileStr |-> <<>>]

Reg == [fonts |-> fonts, diffs |-> diffs, err |-> err]

\* the font directory (f.fontpath): file name -> content
Dir == made @@ BaseDir

\* the files of directory d that are not files of BaseDir
Written(d) == [name \in DOMAIN d \ DOMAIN BaseDir |-> d[name]]

NoPure == [op |-> "none"]

NoCall == [reg |-> FALSE, known |-> FALSE, failed |-> FALSE, cause |-> "nil"]

\* the name a family and style are registered under: family in lower case,
\* style in upper case, "BI" for bold italic in either order
RegisteredName(familyStr, styleStr) ==
    ToLower(familyStr) \o
    (IF ToUpper(styleStr) \in {<<"I", "B">>, <<"B", "I">>} THEN <<"B", "I">>
     ELSE ToUpper(styleStr))


Init ==
    /\ build \in {"font.go", "part_001"}
    /\ made \in {<<>>, MapDir}
    /\ fonts = <<>>
    /\ diffs = <<>>
    /\ err = "nil"
    /\ n = 2
    /\ out = <<>>
    /\ pageOut = <<>>
    /\ page = 1
    /\ catalogSort \in BOOLEAN
    /\ sel = [fontFamily |-> <<>>, fontStyle |-> <<>>, fontSizePt |-> 12,
              fontSize |-> 12 \div K, underline |-> FALSE, currentFont |-> ZeroInfo]
    /\ crashed = "no"
    /\ depth = 0
    /\ pending = NoArgs
    /\ calls = 0
    /\ makes = 0
    /\ last = NoCall
    /\ run = [ran |-> FALSE, nf |-> 0, from |-> 0, errIn |-> "nil", ndiffs |-> 0, nfonts |-> 0]
    /\ pure = NoPure

\* the process is alive, no call is in progress, and the call bound allows one more
Ready == crashed = "no" /\ depth = 0 /\ calls < MaxCalls

SetReg(r) == fonts' = r.fonts /\ diffs' = r.diffs /\ err' = r.err

\* a call that is no registration
Called ==
    /\ calls' = calls + 1
    /\ last' = NoCall

\* a registration call
\* a registration call; cause is the error of its extraction, "nil" if the
\* call made no extraction or the extraction succeeded
Registered(familyStr, styleStr, cause) ==
    /\ calls' = calls + 1
    /\ last' = [reg |-> TRUE,
                known |-> RegisteredName(familyStr, styleStr) \in DOMAIN fonts,
                failed |-> cause # "nil",
                cause |-> cause]

MakeFontCall ==
    /\ build = "part_001" /\ crashed = "no" /\ calls = 0 /\ makes < MaxMakes
    /\ \E fontFileStr \in FontSources, encodingFileStr \in EncSources, embed \in EmbedArgs :
          made' = Written(MakeFont(Dir, fontFileStr, encodingFileStr, embed).dir)
    /\ makes' = makes + 1
    /\ UNCHANGED <<pure, build, fonts, diffs, err, n, out, pageOut, page, catalogSort, sel,
                   crashed, depth, pending, calls, last, run>>

AddFontCall ==
    /\ build = "part_001" /\ Ready
    /\ \E name \in NameArgs, fileStr \in JsonArgs :
          /\ \E r \in {AddFont(Reg, Dir, name[1], name[2], fileStr)} : SetReg(r)
          /\ Registered(name[1], name[2], "nil")
    /\ UNCHANGED <<pure, build, made, n, out, pageOut, page, catalogSort, sel, crashed, depth,
                   pending, makes, run>>

AddTTFFontCall ==
    /\ build = "part_001" /\ Ready
    /\ \E name \in NameArgs, fileStr \in TtfArgs :
          /\ \E r \in {AddTTFFont(Reg, Dir, name[1], name[2], fileStr)} : SetReg(r)
          /\ Registered(name[1], name[2],
                        IF getFontKey(name[1], name[2]) \in DOMAIN fonts THEN "nil"
                        ELSE TTFExtraction(Dir, name[1], name[2], fileStr).err)
    /\ UNCHANGED <<pure, build, made, n, out, pageOut, page, catalogSort, sel, crashed, depth,
                   pending, makes, run>>

AddFontFromReaderCall ==
    /\ build = "part_001" /\ Ready
    /\ \E name \in NameArgs, file \in {R_JSON, W_JSON} :
          /\ \E r \in {AddFontFromReader(Reg, name[1], name[2], Dir[file])} : SetReg(r)
          /\ Registered(name[1], name[2], "nil")
    /\ UNCHANGED <<pure, build, made, n, out, pageOut, page, catalogSort, sel, crashed, depth,
                   pending, makes, run>>

\* AddFont of font.go: the outermost frame
AddFontCall_fontgo ==
    /\ build = "font.go" /\ Ready
    /\ \E name \in NameArgs, fileStr \in TtfArgs :
          \E r \in {AddFont_fontgo(Reg, Dir, name[1], name[2], fileStr)} :
              /\ SetReg(r.reg)
              /\ depth' = IF r.recurse THEN 1 ELSE 0
              /\ pending' = IF r.recurse
                            THEN [familyStr |-> name[1], styleStr |-> name[2],
                                  fileStr |-> fileStr]
                            ELSE NoArgs
              /\ Registered(name[1], name[2],
                            IF r.recurse
                            THEN TTFExtraction(Dir, name[1], name[2], fileStr).err
                            ELSE "nil")
    /\ UNCHANGED <<pure, build, made, n, out, pageOut, page, catalogSort, sel, crashed,
                   makes, run>>

\* AddFont of font.go: the frame that abort() opens with the same arguments
AddFontReenter_fontgo ==
    /\ build = "font.go" /\ crashed = "no" /\ depth > 0
    /\ \E r \in {AddFont_fontgo(Reg, Dir, pending.familyStr, pending.styleStr,
                                  pending.fileStr)} :
           /\ SetReg(r.reg)
           /\ IF r.recurse
              THEN /\ depth' = IF depth < MaxDepth THEN depth + 1 ELSE depth
                   /\ crashed' = IF depth < MaxDepth THEN "no"
                                 ELSE "fatal error: stack overflow"
                   /\ pending' = pending
              ELSE /\ depth' = 0 /\ crashed' = "no" /\ pending' = NoArgs
    /\ UNCHANGED <<pure, build, made, n, out, pageOut, page, catalogSort, sel, calls, makes,
                   last, run>>

SetFontCall ==
    /\ build = "part_001" /\ Ready
    /\ \E familyStr \in SetFamilies, styleStr \in SetStyles, size \in SetSizes :
          \E r \in {SetFont(sel, Reg, page, pageOut, familyStr, styleStr, size)} :
              SetReg(r.reg) /\ sel' = r.sel /\ pageOut' = r.pageOut
    /\ Called
    /\ UNCHANGED <<pure, build, made, n, out, page, catalogSort, crashed, depth, pending,
                   makes, run>>

SetFontCall_fontgo ==
    /\ build = "font.go" /\ Ready
    /\ \E familyStr \in SetFamilies, styleStr \in SetStyles, size \in SetSizes :
          \E r \in {SetFont_fontgo(sel, Reg, page, pageOut, familyStr, styleStr, size)} :
              SetReg(r.reg) /\ sel' = r.sel /\ pageOut' = r.pageOut
    /\ Called
    /\ UNCHANGED <<pure, build, made, n, out, page, catalogSort, crashed, depth, pending,
                   makes, run>>

SetFontSizeCall ==
    /\ Ready
    /\ \E size \in Sizes :
          \E r \in {SetFontSize(sel, page, pageOut, size)} :
              sel' = r.sel /\ pageOut' = r.pageOut
    /\ Called
    /\ UNCHANGED <<pure, build, made, fonts, diffs, err, n, out, page, catalogSort, crashed,
                   depth, pending, makes, run>>

SetFontUnitSizeCall ==
    /\ Ready
    /\ \E size \in Sizes :
          \E r \in {SetFontUnitSize(sel, page, pageOut, size)} :
              sel' = r.sel /\ pageOut' = r.pageOut
    /\ Called
    /\ UNCHANGED <<pure, build, made, fonts, diffs, err, n, out, page, catalogSort, crashed,
                   depth, pending, makes, run>>

putfontsCall ==
    /\ Ready
    /\ \E ks1 \in KeySeqs(DOMAIN fonts), ks2 \in KeySeqs(DOMAIN fonts) :
          \E r \in {putfonts(build, Reg, n, Dir, catalogSort, ks1, ks2)} :
              /\ fonts' = r.fonts
              /\ err' = r.err
              /\ n' = r.n
              /\ out' = out \o r.objs
              /\ crashed' = r.crashed
    /\ run' = [ran |-> TRUE, nf |-> n, from |-> Len(out), errIn |-> err,
               ndiffs |-> Len(diffs), nfonts |-> Cardinality(DOMAIN fonts)]
    /\ Called
    /\ UNCHANGED <<pure, build, made, diffs, pageOut, page, catalogSort, sel, depth, pending,
                   makes>>

Next ==
    \/ MakeFontCall
    \/ AddFontCall
    \/ AddTTFFontCall
    \/ AddFontFromReaderCall
    \/ AddFontCall_fontgo
    \/ AddFontReenter_fontgo
    \/ SetFontCall
    \/ SetFontCall_fontgo
    \/ SetFontSizeCall
    \/ SetFontUnitSizeCall
    \/ putfontsCall

Spec == Init /\ [][Next]_vars

----------------------------------------------------------------------------
(* The package functions, applied on their own.  Each action draws the     *)
(* arguments, applies the function once and records arguments and result.  *)

sessionVars == <<build, made, fonts, diffs, err, n, out, pageOut, page, catalogSort,
                 sel, crashed, depth, pending, calls, makes, last, run>>

\* lines an encoding map file may hold: well-formed lines for 0x20, 0x41
\* (twice, with different entries), 0x42 and 0xFF, a line whose position is
\* 0x100, a line whose position is negative, and a line that does not match
\* the format
BadLine == [wf |-> FALSE, pos |-> 0, uv |-> 0, name |-> ""]

MapLines ==
    { MapLine(32, 32, "space"), MapLine(65, 65, "A"), MapLine(65, 913, "Alpha"),
      MapLine(255, 255, "yuml"), MapLine(256, 256, "Amacron"),
      MapLine(-1, 65, "A"), BadLine }

\* the files of at most MaxLines lines
MapFiles == UNION { [1..k -> MapLines] : k \in 0..MaxLines }

X_MAP == <<"x", ".", "m", "a", "p">>

loadMapApply ==
    /\ pure.op = "none"
    /\ \E lines \in MapFiles :
          \E r \in {loadMap((X_MAP :> [kind |-> "map", lines |-> lines]), X_MAP)} :
              pure' = [op |-> "loadMap", lines |-> lines, res |-> r]
    /\ UNCHANGED sessionVars

\* lines of the font's and of the reference encoding: neighbouring
\* positions, the first and last position the loop visits, and one below
EncLineSeq ==
    << MapLine(31, 31, "unit"), MapLine(32, 32, "space"), MapLine(65, 65, "A"),
       MapLine(66, 66, "B"), MapLine(66, 914, "Beta"), MapLine(67, 67, "C"),
       MapLine(255, 255, "yuml") >>

\* the file made of the lines of EncLineSeq whose index is in S
EncFile(S) == SelectSeq(EncLineSeq, LAMBDA l : \E i \in S : EncLineSeq[i] = l)

\* the lines the reference encoding may hold: 0x20, 0x41, 0x42 and 0x43
RefLineIndexes == {2, 3, 4, 6}

REF_MAP == <<"r", "e", "f", ".", "m", "a", "p">>

makeFontEncodingApply ==
    /\ pure.op = "none"
    /\ \E S1 \in SUBSET (1..Len(EncLineSeq)), S2 \in SUBSET RefLineIndexes :
          LET dirv == (X_MAP :> [kind |-> "map", lines |-> EncFile(S1)])
                   @@ (REF_MAP :> [kind |-> "map", lines |-> EncFile(S2)])
              enc  == loadMap(dirv, X_MAP).encList
              ref  == loadMap(dirv, REF_MAP).encList
          IN  \E r \in {makeFontEncoding(dirv, enc, REF_MAP)} :
                  pure' = [op |-> "makeFontEncoding", encList |-> enc, refList |-> ref,
                           items |-> makeFontEncodingLoop(enc, ref, 32, 0, <<>>),
                           res |-> r]
    /\ UNCHANGED sessionVars

\* the FontInfo the descriptor arguments are set in: the one extracted from a.ttf
DescBase == getInfoFromTrueType(BaseDir, A_TTF, TRUE, NotdefEncList).info

CapHeights   == {0, 500}
Ascents      == {0, 700}
StemVs       == {0, 50}
ItalicAngles == {0, -12}
FlagsBefore  == {0, 4, 97}

makeFontDescriptorApply ==
    /\ pure.op = "none"
    /\ \E capHeight \in CapHeights, ascent \in Ascents, stemV \in StemVs,
          italicAngle \in ItalicAngles, flags \in FlagsBefore,
          bold \in BOOLEAN, fixed \in BOOLEAN :
          LET info == [DescBase EXCEPT
                          !.Bold = bold, !.IsFixedPitch = fixed,
                          !.Desc = [@ EXCEPT !.CapHeight = capHeight, !.Ascent = ascent,
                                             !.StemV = stemV, !.ItalicAngle = italicAngle,
                                             !.Flags = flags]]
          IN  \E r \in {makeFontDescriptor(info)} :
                  pure' = [op |-> "makeFontDescriptor", info |-> info, res |-> r,
                           again |-> makeFontDescriptor(r)]
    /\ UNCHANGED sessionVars

\* a segment header with the given marker byte
SegHeaderWith(marker, tp, data) == <<marker>> \o Tail(SegHeader(tp, data))

\* a .pfb file whose two segment headers carry the markers m1 and m2, cut
\* after cut bytes
PfbWith(m1, m2, cut) ==
    SubSeq(SegHeaderWith(m1, 1, Seg1Data) \o Seg1Data
               \o SegHeaderWith(m2, 2, Seg2Data) \o Seg2Data, 1, cut)

Markers == {128, 127, 0}

\* file lengths: the whole file, and cuts inside the first header, inside
\* the first segment, before and inside the second header and inside the
\* second segment
PfbCuts == {Len(PfbBytes), 0, 1, 4, 10, 13, 14, 17, 25}

P_PFB == <<"p", ".", "p", "f", "b">>
P_AFM == <<"p", ".", "a", "f", "m">>

getInfoFromType1Apply ==
    /\ pure.op = "none"
    /\ \E m1 \in Markers, m2 \in Markers, cut \in PfbCuts,
          embed \in BOOLEAN, afm \in BOOLEAN :
          LET pfb  == (P_PFB :> [kind |-> "pfb", bytes |-> PfbWith(m1, m2, cut)])
              dirv == IF afm THEN pfb @@ (P_AFM :> BaseDir[T_AFM]) ELSE pfb
          IN  \E r \in {getInfoFromType1(dirv, P_PFB, embed, NotdefEncList)} :
                  pure' = [op |-> "getInfoFromType1", bytes |-> PfbWith(m1, m2, cut),
                           embed |-> embed, res |-> r]
    /\ UNCHANGED sessionVars

\* the encoding given to the TrueType extractor: 0x20 always, and any of
\* 0x41 (U+0041), 0x42 (U+0042, which no font below has), 0x43 with a
\* codepoint above 0xFFFF whose low 16 bits are 0x0041, and 0x45 named but
\* with codepoint -1
TtEncLineSeq ==
    << MapLine(65, 65, "A"), MapLine(66, 66, "B"),
       MapLine(67, 65601, "Awide"), MapLine(69, -1, "orphan") >>

TtEncList(S) ==
    loadMapScan(<<MapLine(32, 32, "space")>>
                    \o SelectSeq(TtEncLineSeq, LAMBDA l : \E i \in S : TtEncLineSeq[i] = l),
                1, NotdefEncList).encList

\* the parsed font: units per em, the advance of glyph 0, and the
\* character-to-glyph table
UnitsPerEms == {1000, 2048}
Glyph0Widths == {1229, 128}
CharTables == { (32 :> 1), (32 :> 1) @@ (65 :> 2), (32 :> 1) @@ (65 :> 2) @@ (65535 :> 1) }

X_TTF == <<"x", ".", "t", "t", "f">>

getInfoFromTrueTypeApply ==
    /\ pure.op = "none"
    /\ \E S \in SUBSET (1..Len(TtEncLineSeq)), upm \in UnitsPerEms, w0 \in Glyph0Widths,
          chars \in CharTables, embed \in BOOLEAN, embeddable \in BOOLEAN :
          LET ttf  == [DirTtf("FontX", embeddable) EXCEPT
                          !.UnitsPerEm = upm, !.Chars = chars,
                          !.Widths = [g \in 0..2 |-> IF g = 0 THEN w0
                                                     ELSE IF g = 1 THEN 569 ELSE 1366]]
              dirv == (X_TTF :> [kind |-> "ttf", bytes |-> <<0, 1, 0, 0>>, ttf |-> ttf])
          IN  \E r \in {getInfoFromTrueType(dirv, X_TTF, embed, TtEncList(S))} :
                  pure' = [op |-> "getInfoFromTrueType", ttf |-> ttf, embed |-> embed,
                           encList |-> TtEncList(S), res |-> r]
    /\ UNCHANGED sessionVars

InitFn ==
    /\ Init
    /\ build = "part_001" /\ made = <<>> /\ catalogSort = FALSE

NextFn ==
    \/ loadMapApply
    \/ makeFontEncodingApply
    \/ makeFontDescriptorApply
    \/ getInfoFromType1Apply
    \/ getInfoFromTrueTypeApply

SpecFn == InitFn /\ [][NextFn]_vars

----------------------------------------------------------------------------
(* Properties *)

\* the objects written by the last putfonts run
RunObjs == SubSeq(out, run.from + 1, Len(out))
RunSet  == { RunObjs[i] : i \in 1..Len(RunObjs) }

\* the last putfonts run started without an error and returned
RunDone == run.ran /\ run.errIn = "nil" /\ crashed = "no"

\* the fonts that were registered when the last putfonts run started
FontsAtRun == { k \in DOMAIN fonts : fonts[k].I < run.nfonts }

\* C1: the /FontFile or /FontFile2 reference in the descriptor of a font with
\* an embedded file is the number of the stream object that the same
\* putfonts run allocated for that font's file.
C1_FontFileRefIsStream ==
    RunDone =>
        \A d \in RunSet :
            (d.type = "FontDescriptor" /\ Len(d.file) > 0) =>
                \E st \in RunSet :
                    st.type = "Stream" /\ st.file = d.file /\ st.n = d.FontFileRef

\* C2: a registration call whose extraction failed returns with an error
\* recorded and with the registry unchanged.
C2_FailedExtractionAborts ==
    [][(calls' = calls + 1 /\ last'.failed /\ depth' = 0)
          => (err' # "nil" /\ fonts' = fonts)]_vars

\* C3: once the session error is set, no call changes the registry, the
\* differences list, the selection, the output or the error.
C3_StickyError ==
    [][err # "nil" => UNCHANGED <<fonts, diffs, sel, out, pageOut, err>>]_vars

IndexesDense ==
    { fonts[k].I : k \in DOMAIN fonts } = 0..(Cardinality(DOMAIN fonts) - 1)

\* C5: a new key gets objectIndex = number of fonts before the insertion; an
\* objectIndex never changes; the indexes of n fonts are exactly 0..n-1.
C5_ObjectIndex ==
    [][/\ \A k \in DOMAIN fonts' \ DOMAIN fonts :
             fonts'[k].I = Cardinality(DOMAIN fonts)
       /\ \A k \in DOMAIN fonts :
             k \in DOMAIN fonts' /\ fonts'[k].I = fonts[k].I
       /\ IndexesDense']_vars

\* two fonts are registered, the second with index 1, and the last
\* registration call named a key that was already registered
C5_Witness ==
    /\ Cardinality(DOMAIN fonts) = 2
    /\ \E k \in DOMAIN fonts : fonts[k].I = 1
    /\ last.reg /\ last.known

\* C6: no two entries of the differences list are equal; a font with a
\* differences string has the 1-based index of that string, a font without
\* one has index 0.
C6_DiffsDeduplicated ==
    /\ \A i, j \in 1..Len(diffs) : i # j => diffs[i] # diffs[j]
    /\ \A k \in DOMAIN fonts :
          IF fonts[k].Diff # ""
          THEN /\ fonts[k].DiffN \in 1..Len(diffs)
               /\ diffs[fonts[k].DiffN] = fonts[k].Diff
          ELSE fonts[k].DiffN = 0

\* two fonts registered under different keys share the single differences string
C6_Witness ==
    /\ Len(diffs) = 1
    /\ \E k1, k2 \in DOMAIN fonts :
          k1 # k2 /\ fonts[k1].Diff # "" /\ fonts[k1].Diff = fonts[k2].Diff
          /\ fonts[k1].DiffN = fonts[k2].DiffN

\* C7: putfonts writes exactly one encoding object per differences string,
\* and the /Encoding entry of a non-core font dictionary is /WinAnsiEncoding
\* for a font without differences and otherwise the number of the encoding
\* object that carries the font's own differences string.
C7_EncodingObjects ==
    RunDone =>
        /\ \A j \in 1..run.ndiffs :
              Cardinality({ i \in 1..Len(RunObjs) :
                              RunObjs[i].type = "Encoding"
                              /\ RunObjs[i].diff = diffs[j] }) = 1
        /\ \A e \in RunSet :
              e.type = "Encoding" => \E j \in 1..run.ndiffs : e.diff = diffs[j]
        /\ \A o \in RunSet :
              (o.type = "Font" /\ o.tp # "Core") =>
                 IF fonts[o.key].Diff = ""
                 THEN o.Encoding = "WinAnsiEncoding" /\ o.EncodingRef = -1
                 ELSE /\ o.Encoding = ""
                      /\ \E e \in RunSet :
                            e.type = "Encoding" /\ e.n = o.EncodingRef
                            /\ e.diff = fonts[o.key].Diff

\* a run wrote two encoding objects and a font dictionary that refers to
\* the second of them
C7_Witness ==
    /\ RunDone
    /\ run.ndiffs = 2
    /\ \E o \in RunSet :
          o.type = "Font" /\ o.tp # "Core" /\ o.EncodingRef = run.nf + 2

\* C8: the stream of an embedded Type1 font declares /Length1 = segment 1
\* length, /Length2 = segment 2 length, /Length3 0 and no /Filter, and its
\* payload is segment 1 followed by segment 2.
C8_Type1Stream ==
    RunDone =>
        \A st \in RunSet :
            (st.type = "Stream" /\ st.tp = "Type1") =>
                /\ st.Length1 = Len(Seg1Data)
                /\ st.Length2 = Len(Seg2Data)
                /\ st.Length3 = 0
                /\ st.Filter = ""
                /\ st.data = Seg1Data \o Seg2Data

\* C9: the stream of an embedded TrueType font declares /Length = number of
\* bytes written, /Length1 = length of the uncompressed font program,
\* /Filter /FlateDecode exactly when the bytes written are compressed, and
\* neither /Length2 nor /Length3.
C9_TrueTypeStream ==
    RunDone =>
        \A st \in RunSet :
            (st.type = "Stream" /\ st.tp = "TrueType") =>
                /\ st.Length = Len(st.data)
                /\ st.Length1 = IF zlibValid(st.data)
                                THEN Len(zlibUncompress(st.data)) ELSE Len(st.data)
                /\ \A k \in DOMAIN fonts :
                      (fonts[k].File = st.file /\ fonts[k].Tp = "TrueType")
                          => st.Length1 = fonts[k].OriginalSize
                /\ (st.Filter = "FlateDecode") <=> zlibValid(st.data)
                /\ st.Filter \in {"", "FlateDecode"}
                /\ st.Length2 = -1 /\ st.Length3 = -1

\* a run wrote a compressed and an uncompressed TrueType stream
C9_Witness ==
    /\ RunDone
    /\ \E st \in RunSet :
          st.type = "Stream" /\ st.tp = "TrueType" /\ st.Filter = "FlateDecode"
    /\ \E st \in RunSet :
          st.type = "Stream" /\ st.tp = "TrueType" /\ st.Filter = ""

\* C10: after putfonts returns, the session error is set or every registered
\* font has its font dictionary written; a font of a kind the emitter does
\* not know leaves the session error set.
C10_UnsupportedKind ==
    (run.ran /\ crashed = "no") =>
        /\ \/ err # "nil"
           \/ \A k \in FontsAtRun : \E o \in RunSet : o.type = "Font" /\ o.key = k
        /\ \A k \in FontsAtRun :
              fonts[k].Tp \notin {"Core", "Type1", "TrueType"} => err # "nil"

\* a run that started without error met a font of unknown kind after
\* writing another font's dictionary
C10_Witness ==
    /\ RunDone
    /\ \E k \in FontsAtRun : fonts[k].Tp \notin {"Core", "Type1", "TrueType"}
    /\ \E o \in RunSet : o.type = "Font"
    /\ err = "unsupported font type"

\* the first line of the file that is malformed or names a position of 256 or more
FirstBad(lines) ==
    LET bad == { i \in 1..Len(lines) : ~lines[i].wf \/ lines[i].pos >= 256 }
    IN  IF bad # {} THEN CHOOSE i \in bad : \A j \in bad : i <= j ELSE 0

\* C12: loadMap on a file with a malformed line or a line whose position is
\* 256 or more returns an error, and the table it returns has none of the
\* slots set by the well-formed lines before that line.
C12_NoPartialTable ==
    (/\ pure.op = "loadMap"
     /\ FirstBad(pure.lines) > 0
     /\ ~pure.res.panic)
        => /\ pure.res.err # "nil"
           /\ \A i \in 1..(FirstBad(pure.lines) - 1) :
                 pure.res.encList[pure.lines[i].pos]
                     # [uv |-> pure.lines[i].uv, name |-> pure.lines[i].name]

\* C13: loadMap on a file of well-formed lines with positions in 0..255
\* returns a table where a slot named by some line holds the codepoint and
\* name of the last line naming it and every other slot is {-1, ".notdef"}.
C13_LastLineWins ==
    (/\ pure.op = "loadMap"
     /\ \A i \in 1..Len(pure.lines) : pure.lines[i].wf /\ pure.lines[i].pos \in 0..255) =>
        /\ pure.res.err = "nil" /\ ~pure.res.panic
        /\ DOMAIN pure.res.encList = 0..255
        /\ \A slot \in 0..255 :
              LET naming == { i \in 1..Len(pure.lines) : pure.lines[i].pos = slot }
              IN  IF naming = {}
                  THEN pure.res.encList[slot] = [uv |-> -1, name |-> ".notdef"]
                  ELSE LET i == CHOOSE i \in naming : \A j \in naming : j <= i
                       IN  pure.res.encList[slot]
                              = [uv |-> pure.lines[i].uv, name |-> pure.lines[i].name]

\* the file names 0x20 and 0xFF once and 0x41 twice; the second entry for
\* 0x41 is in the table and 253 slots hold the default
C13_Witness ==
    /\ pure.op = "loadMap"
    /\ pure.lines = << MapLine(65, 65, "A"), MapLine(255, 255, "yuml"),
                     MapLine(65, 913, "Alpha") >>
    /\ pure.res.err = "nil"
    /\ pure.res.encList[65].name = "Alpha"
    /\ Cardinality({ j \in 0..255 :
                       pure.res.encList[j] = [uv |-> -1, name |-> ".notdef"] }) = 254

\* the positions 32..255 at which the font's glyph name differs from the reference's
Differing(encList, refList) == { j \in 32..255 : encList[j].name # refList[j].name }

\* what is to be printed for the differing positions from position j on: a
\* position token before a name exactly when the position before did not differ
RECURSIVE Tokens(_, _, _)
Tokens(encList, D, j) ==
    LET rest == { i \in D : i >= j }
        d    == CHOOSE i \in rest : \A i2 \in rest : i <= i2
    IN  IF rest = {} THEN <<>>
        ELSE (IF (d - 1) \in D THEN <<>> ELSE << [pos |-> d, name |-> ""] >>)
             \o << [pos |-> -1, name |-> encList[d].name] >>
             \o Tokens(encList, D, d + 1)

\* a token as printed
Render(tok) == IF tok.pos >= 0 THEN ToString(tok.pos) ELSE "/" \o tok.name

\* the names obtained by applying the tokens to the table names, writing at
\* position at
RECURSIVE Replay(_, _, _)
Replay(toks, names, at) ==
    IF toks = <<>> THEN names
    ELSE IF Head(toks).pos >= 0 THEN Replay(Tail(toks), names, Head(toks).pos)
    ELSE Replay(Tail(toks), [names EXCEPT ![at] = Head(toks).name], at + 1)

\* C14: makeFontEncoding prints a slash-prefixed name for exactly the
\* differing positions in 32..255, in increasing order, with the position
\* before a name exactly at the start of a run of consecutive differing
\* positions; the output is empty when the encodings agree, and replaying
\* it over the reference gives the font encoding's names on 32..255.
C14_Differences ==
    pure.op = "makeFontEncoding" =>
        LET D    == Differing(pure.encList, pure.refList)
            toks == Tokens(pure.encList, D, 32)
            back == Replay(toks, [j \in 0..255 |-> pure.refList[j].name], 0)
        IN  /\ pure.res.err = "nil"
            /\ pure.items = [i \in 1..Len(toks) |-> Render(toks[i])]
            /\ pure.res.diffStr = JoinBlank(pure.items)
            /\ (\A j \in 0..255 : pure.encList[j] = pure.refList[j])
                  => pure.res.diffStr = ""
            /\ (D = {}) <=> (pure.res.diffStr = "")
            /\ \A j \in 32..255 : back[j] = pure.encList[j].name

\* the encodings differ at 0x41, 0x42 and 0xFF and agree at 0x20
C14_Witness ==
    /\ pure.op = "makeFontEncoding"
    /\ Differing(pure.encList, pure.refList) = {65, 66, 255}
    /\ pure.res.diffStr = "65 /A /Beta 255 /yuml"
    /\ pure.encList[32].name = "space"

\* bit b of the flags value x is set
FlagBit(x, b) == (x \div (2 ^ b)) % 2 = 1

\* C15: makeFontDescriptor sets capHeight to ascent when it is 0 and leaves
\* it otherwise; sets flags to bit 5, plus bit 0 exactly for a fixed-pitch
\* font, plus bit 6 exactly for a non-zero italicAngle, and no other bit;
\* sets a stemV of 0 to 120 for a bold font and 70 otherwise and leaves a
\* non-zero stemV.
C15_DescriptorDefaults ==
    pure.op = "makeFontDescriptor" =>
        LET before == pure.info.Desc
            after  == pure.res.Desc
        IN  /\ after.CapHeight = IF before.CapHeight = 0 THEN before.Ascent
                                 ELSE before.CapHeight
            /\ after.Flags \in 0..127
            /\ FlagBit(after.Flags, 5)
            /\ FlagBit(after.Flags, 0) <=> pure.info.IsFixedPitch
            /\ FlagBit(after.Flags, 6) <=> (before.ItalicAngle # 0)
            /\ \A b \in 1..4 : ~FlagBit(after.Flags, b)
            /\ after.StemV = IF before.StemV # 0 THEN before.StemV
                             ELSE IF pure.info.Bold THEN 120 ELSE 70

\* capHeight 0 with ascent 700, stemV 0 and bold, flags 97 before
C15_Witness ==
    /\ pure.op = "makeFontDescriptor"
    /\ pure.info.Desc.CapHeight = 0 /\ pure.info.Desc.Ascent = 700
    /\ pure.info.Desc.StemV = 0 /\ pure.info.Bold
    /\ pure.info.Desc.Flags = 97 /\ ~pure.info.IsFixedPitch
    /\ pure.res.Desc.CapHeight = 700 /\ pure.res.Desc.StemV = 120
    /\ pure.res.Desc.Flags = 32

\* C16: applying makeFontDescriptor twice gives the FontInfo that applying
\* it once gives, and it changes no field other than capHeight, flags and
\* stemV.
C16_DescriptorIdempotent ==
    pure.op = "makeFontDescriptor" =>
        /\ pure.again = pure.res
        /\ [pure.res EXCEPT !.Desc = pure.info.Desc] = pure.info
        /\ [pure.res.Desc EXCEPT !.CapHeight = pure.info.Desc.CapHeight,
                                  !.Flags = pure.info.Desc.Flags,
                                  !.StemV = pure.info.Desc.StemV] = pure.info.Desc

\* capHeight and ascent both 0, stemV 0: the second application finds
\* capHeight still 0 and stemV set
C16_Witness ==
    /\ pure.op = "makeFontDescriptor"
    /\ pure.info.Desc.CapHeight = 0 /\ pure.info.Desc.Ascent = 0
    /\ pure.info.Desc.StemV = 0 /\ pure.info.Desc.ItalicAngle # 0
    /\ pure.res.Desc.CapHeight = 0 /\ pure.res.Desc.StemV = 70
    /\ pure.again = pure.res
    /\ pure.res.Name = "FontA" /\ pure.res.Desc.Descent # 0

\* offset of the second segment header in a file whose first segment is whole
SecondHeaderAt == 6 + Len(Seg1Data)

\* the file holds a first header whose marker is not 0x80, or a whole first
\* segment with a good marker and then a header whose marker is not 0x80
BadMarker(bytes) ==
    \/ Len(bytes) >= 1 /\ bytes[1] # 128
    \/ /\ Len(bytes) > SecondHeaderAt
       /\ bytes[1] = 128
       /\ bytes[SecondHeaderAt + 1] # 128

RoundHalfAway(num, den) ==
    IF 2 * (num % den) >= den THEN (num \div den) + 1 ELSE num \div den

\* the advance of glyph g in thousandths of the em
ScaledAdvance(ttf, g) == RoundHalfAway(1000 * ttf.Widths[g], ttf.UnitsPerEm)

\* slot j is mapped and the font's table has its codepoint
InFont(ttf, encList, j) ==
    encList[j].name # ".notdef" /\ encList[j].uv \in DOMAIN ttf.Chars

\* C18: the TrueType extractor fills all 256 width slots: a mapped slot
\* whose codepoint the font's table contains gets that glyph's scaled and
\* rounded advance, every other slot gets missingWidth, the scaled advance
\* of glyph 0; a mapped slot whose codepoint is absent is reported to the
\* message sink and the extraction succeeds.
C18_Widths ==
    (pure.op = "getInfoFromTrueType" /\ (pure.embed => pure.ttf.Embeddable)) =>
        /\ pure.res.err = "nil"
        /\ DOMAIN pure.res.info.Cw = 0..255
        /\ pure.res.info.Desc.MissingWidth = ScaledAdvance(pure.ttf, 0)
        /\ \A j \in 0..255 :
              pure.res.info.Cw[j] =
                  IF InFont(pure.ttf, pure.encList, j)
                  THEN ScaledAdvance(pure.ttf, pure.ttf.Chars[pure.encList[j].uv])
                  ELSE ScaledAdvance(pure.ttf, 0)
        /\ \A j \in 0..255 :
              (pure.encList[j].name # ".notdef" /\ ~InFont(pure.ttf, pure.encList, j))
                  => \E i \in 1..Len(pure.res.msgs) :
                        pure.res.msgs[i] = pure.encList[j].name

\* C11: a registration of a TrueType font whose license forbids embedding
\* returns with the embedding-forbidden error as the session error, not
\* with an error of a later step, and with the registry unchanged.
C11_PolicyErrorSurfaces ==
    [][(calls' = calls + 1 /\ err = "nil" /\ last'.cause = PolicyError /\ depth' = 0)
          => (err' = PolicyError /\ fonts' = fonts)]_vars

\* C19: every AddFont and AddTTFFont call returns: the frames that the
\* failure fallback opens with the arguments of the call never pile up
\* until the stack is exhausted.
C19_CallsTerminate == crashed # "fatal error: stack overflow"

\* C20: after a putfonts run that ends without error, the N recorded for
\* each registered font is the number of the object holding its font
\* dictionary, no two fonts have the same N, and the /Widths and
\* /FontDescriptor references of a non-core font's dictionary are the
\* numbers of the widths and descriptor objects written for that font.
C20_ObjectNumbers ==
    (RunDone /\ err = "nil") =>
        /\ \A k \in FontsAtRun :
              /\ \E o \in RunSet : o.type = "Font" /\ o.key = k /\ o.n = fonts[k].N
              /\ \A o \in RunSet : o.n = fonts[k].N => (o.type = "Font" /\ o.key = k)
        /\ \A k1, k2 \in FontsAtRun : k1 # k2 => fonts[k1].N # fonts[k2].N
        /\ \A o \in RunSet :
              (o.type = "Font" /\ o.tp # "Core") =>
                  /\ \E w \in RunSet :
                        w.type = "Widths" /\ w.key = o.key /\ w.n = o.Widths
                  /\ \E d \in RunSet :
                        d.type = "FontDescriptor" /\ d.key = o.key /\ d.n = o.FontDescriptor
                  /\ \A x \in RunSet :
                        x.n \in {o.Widths, o.FontDescriptor} => x.key = o.key

\* a run without error wrote the dictionaries of two fonts that are not
\* core fonts, each with its widths and descriptor objects
C20_Witness ==
    /\ RunDone /\ err = "nil"
    /\ \E k1, k2 \in FontsAtRun :
          /\ k1 # k2
          /\ fonts[k1].Tp # "Core" /\ fonts[k2].Tp # "Core"
          /\ fonts[k1].N > 0 /\ fonts[k2].N > 0
    /\ Cardinality({o \in RunSet : o.type = "FontDescriptor"}) = 2

\* the position of line l is no slot of the table
OutOfTable(l) == l.wf /\ l.pos \notin 0..255

\* the first line that the scanner cannot store: malformed, or with a
\* position that is no slot of the table; 0 if there is none
FirstUnstorable(lines) ==
    IF \E i \in 1..Len(lines) : ~lines[i].wf \/ OutOfTable(lines[i])
    THEN CHOOSE i \in 1..Len(lines) :
            /\ ~lines[i].wf \/ OutOfTable(lines[i])
            /\ \A j \in 1..(i - 1) : lines[j].wf /\ ~OutOfTable(lines[j])
    ELSE 0

\* C22: loadMap writes to slots 0..255 only: when it reaches a line whose
\* position is negative or 256 or more, it returns an error and does not
\* use the position as an index.
C22_PositionsChecked ==
    pure.op = "loadMap" =>
        /\ DOMAIN pure.res.encList = 0..255
        /\ (/\ FirstUnstorable(pure.lines) > 0
            /\ OutOfTable(pure.lines[FirstUnstorable(pure.lines)]))
               => (pure.res.err # "nil" /\ ~pure.res.panic)

\* C23: the TrueType extractor looks a slot's glyph up under the slot's
\* codepoint itself: a named slot whose codepoint is above 65535 or is -1
\* gets missingWidth, never the advance of the codepoint that has the same
\* low 16 bits.
C23_NoTruncatedLookup ==
    (pure.op = "getInfoFromTrueType" /\ pure.res.err = "nil") =>
        \A j \in 0..255 :
            (pure.encList[j].name # ".notdef" /\ pure.encList[j].uv \notin 0..65535)
                => pure.res.info.Cw[j] = pure.res.info.Desc.MissingWidth

\* what the output holds of the objects objs: a stream object carries no
\* mark of the font it was written for
Bodies(objs) ==
    [i \in 1..Len(objs) |->
        IF objs[i].type = "Stream"
        THEN [objs[i] EXCEPT !.key = <<>>, !.file = <<>>, !.tp = ""]
        ELSE objs[i]]

\* C21: with catalogSort on, the objects a putfonts run writes (numbers,
\* order, bodies) are the same for every order in which the two loops over
\* the registry deliver the keys, also when two keys name the same font
\* file with different FontInfo.
C21_SortedOutputDetermined ==
    [][(catalogSort /\ err = "nil" /\ run' # run)
          => \A ks1, ks2 \in KeySeqs(DOMAIN fonts) :
                Bodies(putfonts(build, Reg, n, Dir, TRUE, ks1, ks2).objs)
                    = Bodies(SubSeq(out', Len(out) + 1, Len(out')))]_vars

====
